---- MODULE Spec2Model ----
(***************************************************************************)
(* figiMapping: a batch pipeline of three scripts.                         *)
(*   main.py                      calls pull_data_from_database(id_list)   *)
(*   src/pulling_data_InvIdent.py pull_data_from_database                  *)
(*   src/figiAPI.py               get_figi and the module-level lookup     *)
(*   src/mappingExchangeId_Code.py map_exchange_id_to_code                 *)
(* One run of the interpreter executes one of the scripts; `script` says   *)
(* which, and `pc` is the statement the interpreter is at.                 *)
(***************************************************************************)
EXTENDS Integers, Sequences, FiniteSets, TLC

VARIABLES
    script,           \* the module the interpreter runs
    pc,               \* the statement about to execute
    stdout,           \* the messages printed so far
    exitStatus,       \* "running", or the process exit status "0" / "1"
    \* ---- pull_data_from_database
    ids_to_search,    \* the argument of pull_data_from_database
    conn,             \* "unbound" | "open" | "closed"
    placeholders,     \* the text built at line 38, as a token sequence
    sql_query,        \* the text built at line 42, as a token sequence
    executed,         \* the (sql, params) pairs handed to pd.read_sql_query
    pending,          \* how the try block is being left
    failedAt,         \* the statement that raised: "none" | "connect" | "query"
    sqlPulledIds,     \* main.py's result variable
    connectAttempts,  \* calls of pyodbc.connect
    opens,            \* calls of pyodbc.connect that returned a connection
    closes,           \* calls of conn.close()
    \* ---- figiAPI
    df,               \* the request table, column oriented
    payload,          \* df.to_dict(orient='records')
    data,             \* json.dumps(payload)
    response,         \* what requests.post returned
    figi_df,          \* the module-level result of get_figi
    raised,           \* the exception that left get_figi, or "none"
    toExcelOn,        \* the kind of object to_excel was invoked on
    xlsx,             \* the rows written to figi_output.xlsx
    \* ---- map_exchange_id_to_code
    heap,             \* the DataFrame objects, by reference
    argRef,           \* the reference the caller passes as sqlPulledIds
    retRef,           \* the reference map_exchange_id_to_code returned
    atCall,           \* the value of the argument table when the call began
    exchange_mapping, \* the dict passed by the caller
    mappingAtCall     \* its value when the call began

procVars  == <<script, pc, stdout, exitStatus>>
fetchVars == <<ids_to_search, conn, placeholders, sql_query, executed, pending,
               failedAt, sqlPulledIds, connectAttempts, opens, closes>>
figiVars  == <<df, payload, data, response, figi_df, raised, toExcelOn, xlsx>>
mapVars   == <<heap, argRef, retRef, atCall, exchange_mapping, mappingAtCall>>
vars      == <<procVars, fetchVars, figiVars, mapVars>>

----------------------------------------------------------------------------
(* Bounds of the model *)
MaxIds      == 3
MaxRequests == 2
MaxElems    == 2
MaxRows     == 2

(* SELECT top 10: the row cap of the query text *)
TopN == 10

----------------------------------------------------------------------------
(* Helpers for Python values *)

RECURSIVE Join(_, _)
(* sep.join(parts), as the sequence of the tokens of the text *)
Join(parts, sep) ==
    IF Len(parts) = 0 THEN <<>>
    ELSE IF Len(parts) = 1 THEN <<parts[1]>>
    ELSE <<parts[1], sep>> \o Join(Tail(parts), sep)

(* [x] * n *)
Repeat(x, n) == [i \in 1..n |-> x]

SeqsUpTo(S, n) == UNION {[1..k -> S] : k \in 0..n}

Count(seq, x) == Cardinality({i \in 1..Len(seq) : seq[i] = x})

Range(seq) == {seq[i] : i \in 1..Len(seq)}

----------------------------------------------------------------------------
(* main.py and pull_data_from_database *)

id_list == <<"US3205175017", "US78462F1030", "US0378331005">>

Identifiers == Range(id_list)

SqlHead ==
    "SELECT top 10 InvestmentId, ExchangeId, RIGHT(CurrencyId, 3), Identifier FROM InvestmentIdentifier WHERE IdentifierType = 2 and Identifier IN ("

SqlTail == ")"

(* line 59: the message of the except branch *)
ConnectError == "Error connecting to database: "

NoTable == [kind |-> "unbound", nrows |-> 0]

PlaceholdersInterpolated(ids) == Join(ids, ", ")

(* line 38: ', '.join(['?'] * len(ids_to_search)) *)
Placeholders(ids) == Join(Repeat("?", Len(ids)), ", ")

(* line 42: the f-string around {placeholders} *)
SqlQuery(ph) == <<SqlHead>> \o ph \o <<SqlTail>>

(* line 58: except pyodbc.Error matches pyodbc.Error and its subclasses *)
Caught(exc) == exc = "pyodbc.Error"

ConnCloseOnReturnOnly == conn # "unbound" /\ pending = "return"

(* line 63: 'conn' in locals() *)
ConnInLocals == conn # "unbound"

(* What pd.read_sql_query can do with the query: return the rows, or raise.
   An error of cursor.execute reaches the caller wrapped by pandas in its
   own DatabaseError; an error of conn.cursor() or of the fetch reaches it
   as the driver's pyodbc.Error.  An empty IN () is rejected by the server. *)
QueryOutcomes(ids) ==
    (IF Len(ids) > 0 THEN {"rows"} ELSE {}) \cup {"pyodbc.Error", "DatabaseError"}

Echo(msg) == stdout' = Append(stdout, msg)

(* main.py line 7-9: the call of pull_data_from_database(id_list) *)
MainStart ==
    /\ script = "main.py" /\ pc = "main"
    /\ Echo("Starting data pull...")
    /\ pc' = "connect"
    /\ UNCHANGED <<script, exitStatus, fetchVars, figiVars, mapVars>>

(* line 32-33: pyodbc.connect(conn_str) returns a connection or raises *)
Connect ==
    /\ pc = "connect"
    /\ connectAttempts' = connectAttempts + 1
    /\ \E ok \in BOOLEAN :
         IF ok
         THEN /\ conn' = "open"
              /\ opens' = opens + 1
              /\ Echo("Connection established successfully using SQL Auth!")
              /\ pc' = "prepare"
              /\ UNCHANGED <<pending, failedAt>>
         ELSE /\ pending' = "pyodbc.Error"
              /\ failedAt' = "connect"
              /\ pc' = IF Caught("pyodbc.Error") THEN "except" ELSE "finally"
              /\ UNCHANGED <<conn, opens, stdout>>
    /\ UNCHANGED <<script, exitStatus, ids_to_search, placeholders, sql_query,
                   executed, sqlPulledIds, closes, figiVars, mapVars>>

(* line 38-46: the placeholders, the query text, the two diagnostics *)
PrepareQuery ==
    /\ pc = "prepare"
    /\ placeholders' = Placeholders(ids_to_search)
    /\ sql_query' = SqlQuery(placeholders')
    /\ stdout' = stdout \o <<"Executing SQL", "With parameters">>
    /\ pc' = "execute"
    /\ UNCHANGED <<script, exitStatus, ids_to_search, conn, executed, pending,
                   failedAt, sqlPulledIds, connectAttempts, opens, closes,
                   figiVars, mapVars>>

(* line 50-56: pd.read_sql_query(sql_query, conn, params=ids_to_search),
   then the row count is printed and the table returned *)
ExecuteQuery ==
    /\ pc = "execute"
    /\ executed' = Append(executed, [sql |-> sql_query, params |-> ids_to_search])
    /\ \E outcome \in QueryOutcomes(ids_to_search) :
         IF outcome = "rows"
         THEN /\ \E n \in 0..TopN :
                   sqlPulledIds' = [kind |-> "DataFrame", nrows |-> n]
              /\ Echo("Retrieved rows.")
              /\ pending' = "return"
              /\ pc' = "finally"
              /\ UNCHANGED failedAt
         ELSE /\ pending' = outcome
              /\ failedAt' = "query"
              /\ pc' = IF Caught(outcome) THEN "except" ELSE "finally"
              /\ UNCHANGED <<sqlPulledIds, stdout>>
    /\ UNCHANGED <<script, exitStatus, ids_to_search, conn, placeholders,
                   sql_query, connectAttempts, opens, closes, figiVars, mapVars>>

ExceptHandlerSwallow ==
    /\ pc = "except"
    /\ Echo(ConnectError)
    /\ pending' = "return"
    /\ pc' = "finally"
    /\ UNCHANGED <<script, exitStatus, ids_to_search, conn, placeholders,
                   sql_query, executed, failedAt, sqlPulledIds, connectAttempts,
                   opens, closes, figiVars, mapVars>>

(* line 58-60: the message, then sys.exit(1) raises SystemExit *)
ExceptHandler ==
    /\ pc = "except"
    /\ Echo(ConnectError)
    /\ pending' = "SystemExit(1)"
    /\ pc' = "finally"
    /\ UNCHANGED <<script, exitStatus, ids_to_search, conn, placeholders,
                   sql_query, executed, failedAt, sqlPulledIds, connectAttempts,
                   opens, closes, figiVars, mapVars>>

(* line 62-65: the finally block, then the try statement is left the way
   `pending` says: the return reaches main.py, SystemExit and any other
   exception reach the interpreter, which ends the process with status 1 *)
Finally ==
    /\ pc = "finally"
    /\ IF ConnInLocals
       THEN /\ conn' = "closed"
            /\ closes' = closes + 1
            /\ Echo("Connection closed.")
       ELSE UNCHANGED <<conn, closes, stdout>>
    /\ IF pending = "return"
       THEN pc' = "main_after" /\ UNCHANGED exitStatus
       ELSE pc' = "exited" /\ exitStatus' = "1"
    /\ UNCHANGED <<script, ids_to_search, placeholders, sql_query, executed,
                   pending, failedAt, sqlPulledIds, connectAttempts, opens,
                   figiVars, mapVars>>

(* main.py line 11-12 *)
MainFinish ==
    /\ pc = "main_after"
    /\ stdout' = stdout \o <<"Data pull complete.", "head">>
    /\ pc' = "exited"
    /\ exitStatus' = "0"
    /\ UNCHANGED <<script, fetchVars, figiVars, mapVars>>

----------------------------------------------------------------------------
(* figiAPI.py: get_figi and the module-level lookup *)

(* line 46-51: the literal request table, column oriented *)
LiteralDf ==
    [idType   |-> <<"ID_ISIN", "ID_ISIN", "ID_ISIN">>,
     idValue  |-> <<"US0378331005", "US5949181045", "DE0008469008">>,
     exchCode |-> <<"US", "US", "GF">>,
     currency |-> <<"USD", "USD", "EUR">>]

RequestColumns == {"idType", "idValue", "exchCode", "currency"}

(* The request tables get_figi is tried on: rows of the literal table *)
RequestTables ==
    {[c \in RequestColumns |-> [i \in 1..Len(pick) |-> LiteralDf[c][pick[i]]]] :
        pick \in SeqsUpTo(1..Len(LiteralDf.idValue), MaxRequests) \ {<<>>}}

NRows(table) == Len(table.idValue)

(* line 53: df.to_dict(orient='records'), one dict per row *)
ToDictRecords(table) ==
    [i \in 1..NRows(table) |-> [c \in RequestColumns |-> table[c][i]]]

(* line 24: json.dumps(payload), a JSON array of objects, each the
   sequence of its key/value pairs in column order *)
JsonDumps(rows) ==
    [i \in 1..Len(rows) |->
        <<<<"idType", rows[i].idType>>, <<"idValue", rows[i].idValue>>,
          <<"exchCode", rows[i].exchCode>>, <<"currency", rows[i].currency>>>>]

(* The status codes a final response can carry, at the edges of the classes
   2xx to 5xx (an interim 1xx response is consumed by the transport) *)
StatusCodes == {200, 204, 299, 300, 304, 399, 400, 404, 499, 500, 503, 599}

(* The elements of a mapping response: a match or an error, per request *)
ResponseElements ==
    {[k \in {"data"} |-> "BBG000B9XRY4"], [k \in {"error"} |-> "No identifier found."]}

(* A response body: a JSON array of response elements, or text that is
   no JSON *)
Bodies ==
    {[json |-> TRUE, elems |-> e] : e \in SeqsUpTo(ResponseElements, MaxElems)}
        \cup {[json |-> FALSE, elems |-> <<>>]}

NoResponse == [status |-> 0, body |-> [json |-> FALSE, elems |-> <<>>]]

Responses == {[status |-> s, body |-> b] : s \in StatusCodes, b \in Bodies}

(* line 32: response.raise_for_status() raises HTTPError for a client
   error (4xx) or a server error (5xx) status, and for no other *)
RaisesForStatus(r) == 400 <= r.status /\ r.status < 600

NaN == "NaN"

Unbound == [kind |-> "unbound", columns |-> {}, rows |-> <<>>]

None == [kind |-> "None", columns |-> {}, rows |-> <<>>]

(* line 40: pd.DataFrame(json_data) on a list of dicts: one row per
   element, one column per key, NaN where an element lacks the key *)
DataFrame(json_data) ==
    LET cols == UNION {DOMAIN json_data[i] : i \in 1..Len(json_data)}
    IN  [kind    |-> "DataFrame",
         columns |-> cols,
         rows    |-> [i \in 1..Len(json_data) |->
                        [c \in cols |-> IF c \in DOMAIN json_data[i]
                                        THEN json_data[i][c] ELSE NaN]]]

(* line 46-53: the request table and the payload *)
BuildPayload ==
    /\ script = "figiAPI.py" /\ pc = "figi"
    /\ payload' = ToDictRecords(df)
    /\ pc' = "dumps"
    /\ UNCHANGED <<script, stdout, exitStatus, df, data, response, figi_df,
                   raised, toExcelOn, xlsx, fetchVars, mapVars>>

(* line 24-26: the body of the request, printed *)
DumpPayload ==
    /\ pc = "dumps"
    /\ data' = JsonDumps(payload)
    /\ Echo("payload")
    /\ pc' = "post"
    /\ UNCHANGED <<script, exitStatus, df, payload, response, figi_df, raised,
                   toExcelOn, xlsx, fetchVars, mapVars>>

(* line 28: requests.post returns a response, or raises when the transport
   fails; the call is outside the try statement, so the exception leaves
   get_figi and, uncaught at module level, ends the process *)
Post ==
    /\ pc = "post"
    /\ \E ok \in BOOLEAN :
         IF ok
         THEN /\ \E r \in Responses : response' = r
              /\ pc' = "raise_for_status"
              /\ UNCHANGED <<raised, exitStatus>>
         ELSE /\ raised' = "ConnectionError"
              /\ pc' = "exited"
              /\ exitStatus' = "1"
              /\ UNCHANGED response
    /\ UNCHANGED <<script, stdout, df, payload, data, figi_df, toExcelOn, xlsx,
                   fetchVars, mapVars>>

(* line 31-36: an HTTP error is printed and get_figi returns None *)
RaiseForStatus ==
    /\ pc = "raise_for_status"
    /\ IF RaisesForStatus(response)
       THEN /\ stdout' = stdout \o <<"Error:", "Response text:">>
            /\ figi_df' = None
            /\ pc' = "print"
       ELSE /\ pc' = "json"
            /\ UNCHANGED <<stdout, figi_df>>
    /\ UNCHANGED <<script, exitStatus, df, payload, data, response, raised,
                   toExcelOn, xlsx, fetchVars, mapVars>>

(* line 39-40: response.json() parses the body or raises; the table is
   returned *)
ParseJson ==
    /\ pc = "json"
    /\ IF response.body.json
       THEN /\ figi_df' = DataFrame(response.body.elems)
            /\ pc' = "print"
            /\ UNCHANGED <<raised, exitStatus>>
       ELSE /\ raised' = "JSONDecodeError"
            /\ pc' = "exited"
            /\ exitStatus' = "1"
            /\ UNCHANGED figi_df
    /\ UNCHANGED <<script, stdout, df, payload, data, response, toExcelOn,
                   xlsx, fetchVars, mapVars>>

(* line 56 *)
PrintFigi ==
    /\ pc = "print"
    /\ Echo("figi_df")
    /\ pc' = "to_excel"
    /\ UNCHANGED <<script, exitStatus, figiVars, fetchVars, mapVars>>

(* line 58: figi_df.to_excel('figi_output.xlsx', index=False), with no test
   of figi_df before it; on None the attribute lookup raises AttributeError *)
ToExcel ==
    /\ pc = "to_excel"
    /\ toExcelOn' = figi_df.kind
    /\ IF figi_df.kind = "DataFrame"
       THEN /\ xlsx' = <<figi_df.columns>> \o figi_df.rows
            /\ exitStatus' = "0"
       ELSE /\ exitStatus' = "1"
            /\ UNCHANGED xlsx
    /\ pc' = "exited"
    /\ UNCHANGED <<script, stdout, df, payload, data, response, figi_df, raised,
                   fetchVars, mapVars>>

----------------------------------------------------------------------------
(* mappingExchangeId_Code.py: map_exchange_id_to_code *)

ExchangeIds == {7, 12}

InvestmentIds == {"INV1", "INV2"}

MappingKeys == {7, 99}

ExchangeCodes == {"NYSE", "LSE"}

RecordColumns == {"InvestmentId", "ExchangeId", "Identifier"}

(* The rows of an Identifier Record table, and the same rows of a table
   that already carries an ExchangeCode column *)
RecordRows(withCode) ==
    {[c \in RecordColumns \cup (IF withCode THEN {"ExchangeCode"} ELSE {}) |->
        CASE c = "InvestmentId" -> inv
          [] c = "ExchangeId"   -> ex
          [] c = "Identifier"   -> "US3205175017"
          [] OTHER              -> "OLD"] :
        inv \in InvestmentIds, ex \in ExchangeIds}

RecordTables ==
    UNION {{[columns |-> RecordColumns \cup (IF withCode THEN {"ExchangeCode"} ELSE {}),
             rows    |-> rs] : rs \in SeqsUpTo(RecordRows(withCode), MaxRows)} :
           withCode \in BOOLEAN}

(* The dicts from some of the keys to exchange codes *)
Mappings == UNION {[keys -> ExchangeCodes] : keys \in SUBSET MappingKeys}

EmptyTable == [columns |-> {}, rows |-> <<>>]

(* table[name]: the column as a series *)
Column(table, name) == [i \in 1..Len(table.rows) |-> table.rows[i][name]]

SeriesMapInner(series, mapping) ==
    LET RECURSIVE keep(_)
        keep(i) == IF i > Len(series) THEN <<>>
                   ELSE IF series[i] \in DOMAIN mapping
                        THEN <<mapping[series[i]]>> \o keep(i + 1)
                        ELSE keep(i + 1)
    IN  keep(1)

(* Series.map(dict): the dict's value for each element, NaN for an element
   that is no key of the dict *)
SeriesMap(series, mapping) ==
    [i \in 1..Len(series) |->
        IF series[i] \in DOMAIN mapping THEN mapping[series[i]] ELSE NaN]

(* table[name] = series: the column is added, or replaced, in the table;
   the rows follow the series' index *)
SetColumn(table, name, series) ==
    [columns |-> table.columns \cup {name},
     rows    |-> [i \in 1..Len(series) |->
                    [c \in table.columns \cup {name} |->
                        IF c = name THEN series[i] ELSE table.rows[i][c]]]]

MapOnCopy ==
    /\ script = "mappingExchangeId_Code.py" /\ pc = "map"
    /\ heap' = [r \in DOMAIN heap \cup {"df1"} |->
                  IF r = "df1"
                  THEN SetColumn(heap[argRef], "ExchangeCode",
                           SeriesMap(Column(heap[argRef], "ExchangeId"),
                                     exchange_mapping))
                  ELSE heap[r]]
    /\ retRef' = "df1"
    /\ pc' = "exited"
    /\ exitStatus' = "0"
    /\ UNCHANGED <<script, stdout, argRef, atCall, exchange_mapping,
                   mappingAtCall, fetchVars, figiVars>>

(* line 16-18: the column is assigned in the table the caller passed, and
   that table is returned *)
MapExchangeIdToCode ==
    /\ script = "mappingExchangeId_Code.py" /\ pc = "map"
    /\ heap' = [heap EXCEPT ![argRef] =
                  SetColumn(heap[argRef], "ExchangeCode",
                      SeriesMap(Column(heap[argRef], "ExchangeId"),
                                exchange_mapping))]
    /\ retRef' = argRef
    /\ pc' = "exited"
    /\ exitStatus' = "0"
    /\ UNCHANGED <<script, stdout, argRef, atCall, exchange_mapping,
                   mappingAtCall, fetchVars, figiVars>>

----------------------------------------------------------------------------
(* The specification *)

FetchIdle ==
    /\ conn = "unbound" /\ placeholders = <<>> /\ sql_query = <<>>
    /\ executed = <<>> /\ pending = "none" /\ failedAt = "none"
    /\ sqlPulledIds = NoTable
    /\ connectAttempts = 0 /\ opens = 0 /\ closes = 0

FigiIdle ==
    /\ payload = <<>> /\ data = <<>> /\ response = NoResponse
    /\ figi_df = Unbound /\ raised = "none" /\ toExcelOn = "never"
    /\ xlsx = <<>>

Init ==
    /\ stdout = <<>> /\ exitStatus = "running"
    /\ FetchIdle /\ FigiIdle
    /\ argRef = "df0" /\ retRef = "none"
    /\ \/ /\ script = "main.py" /\ pc = "main"
          /\ ids_to_search \in SeqsUpTo(Identifiers, MaxIds)
          /\ df = LiteralDf
          /\ heap = [r \in {"df0"} |-> EmptyTable]
          /\ exchange_mapping = <<>>
       \/ /\ script = "figiAPI.py" /\ pc = "figi"
          /\ ids_to_search = <<>>
          /\ df \in RequestTables
          /\ heap = [r \in {"df0"} |-> EmptyTable]
          /\ exchange_mapping = <<>>
       \/ /\ script = "mappingExchangeId_Code.py" /\ pc = "map"
          /\ ids_to_search = <<>>
          /\ df = LiteralDf
          /\ heap \in [{"df0"} -> RecordTables]
          /\ exchange_mapping \in Mappings
    /\ atCall = heap[argRef] /\ mappingAtCall = exchange_mapping

Next ==
    \/ MainStart
    \/ Connect
    \/ PrepareQuery
    \/ ExecuteQuery
    \/ ExceptHandler
    \/ Finally
    \/ MainFinish
    \/ BuildPayload
    \/ DumpPayload
    \/ Post
    \/ RaiseForStatus
    \/ ParseJson
    \/ PrintFigi
    \/ ToExcel
    \/ MapExchangeIdToCode

Spec == Init /\ [][Next]_vars

----------------------------------------------------------------------------
(* Properties of pull_data_from_database and main.py *)

(* The call of pull_data_from_database has ended: its finally block ran *)
FetchEnded == script = "main.py" /\ pc \in {"main_after", "exited"}

(* C1: when the call of pull_data_from_database has ended, by a return, by
   a failure of the query or by sys.exit(1), the connection was closed as
   often as it was opened, which is once or never, and no close was tried
   when the connect attempt failed. *)
C1_ConnectionClosedOnEveryExit ==
    FetchEnded =>
        /\ opens \in {0, 1}
        /\ closes = opens
        /\ conn # "open"
        /\ (failedAt = "connect" => closes = 0 /\ conn = "unbound")

(* A query failure that left the call, with the connection closed *)
C1_Witness ==
    FetchEnded /\ failedAt = "query" /\ pending = "DatabaseError" /\ closes = 1

(* C2: an empty identifier list is rejected before any query is executed:
   no query is handed to the database for it. *)
C2_EmptyListRejected ==
    (script = "main.py" /\ ids_to_search = <<>>) => executed = <<>>

(* C6: a query executed for a non-empty list of k identifiers has exactly
   k '?' placeholders between the head and the closing parenthesis of its
   IN clause, is bound to the k identifiers in the order of the list, and
   holds no identifier in its text. *)
C6_PlaceholdersMatchParameters ==
    \A i \in 1..Len(executed) :
        LET q == executed[i]
            k == Len(ids_to_search)
        IN  k > 0 =>
              /\ q.sql[1] = SqlHead /\ q.sql[Len(q.sql)] = SqlTail
              /\ Count(SubSeq(q.sql, 2, Len(q.sql) - 1), "?") = k
              /\ Count(q.sql, "?") = k
              /\ Len(q.params) = k
              /\ q.params = ids_to_search
              /\ Range(q.sql) \cap Range(ids_to_search) = {}

(* A query executed for three identifiers, one of them given twice *)
C6_Witness ==
    /\ Len(executed) = 1
    /\ Len(ids_to_search) = 3
    /\ ids_to_search[1] = ids_to_search[3]
    /\ ids_to_search[1] # ids_to_search[2]

(* C8: a failed connect attempt is the only one made, no query is executed
   after it, and the process ends with the message and status 1; when the
   connect and the query both succeed the process ends with status 0. *)
C8_ExitStatus ==
    script = "main.py" =>
        /\ failedAt = "connect" => connectAttempts = 1 /\ executed = <<>>
        /\ (pc = "exited" /\ failedAt = "connect") =>
              /\ exitStatus = "1"
              /\ Count(stdout, ConnectError) = 1
        /\ (pc = "exited" /\ failedAt = "none") =>
              /\ exitStatus = "0"
              /\ opens = 1 /\ Len(executed) = 1

(* The process ended after a failed connect attempt *)
C8_Witness ==
    script = "main.py" /\ pc = "exited" /\ failedAt = "connect" /\ opens = 0

(* C9: a failure of the query is not handled by the branch that prints
   "Error connecting to database" and exits: it leaves the call as it was
   raised.  Stated for a non-empty identifier list, whose query text is
   well formed. *)
C9_QueryFailurePropagates ==
    (script = "main.py" /\ failedAt = "query" /\ Len(ids_to_search) > 0) =>
        /\ pending \in {"pyodbc.Error", "DatabaseError"}
        /\ Count(stdout, ConnectError) = 0

----------------------------------------------------------------------------
(* Properties of get_figi and the module-level lookup *)

(* requests.post raised: no response was obtained *)
TransportFailed ==
    /\ script = "figiAPI.py"
    /\ pc \notin {"figi", "dumps", "post"}
    /\ response = NoResponse

(* get_figi was left after a response was obtained *)
FigiAnswered ==
    /\ script = "figiAPI.py"
    /\ pc \in {"print", "to_excel", "exited"}
    /\ response # NoResponse

(* C3: to_excel is attempted only on a table, never on the None that
   get_figi returns for "no result". *)
C3_WriteOnlyOnTable == toExcelOn # "never" => toExcelOn = "DataFrame"

(* C4: when the POST fails at the transport level, get_figi returns None
   and no exception leaves it. *)
C4_TransportFailureYieldsNone ==
    TransportFailed => figi_df = None /\ raised = "none"

(* C5: after a response with a non-2xx status get_figi has returned None
   without raising; after a 2xx response whose body is a JSON array it has
   returned a table with one row per element of the array. *)
C5_StatusDecidesResult ==
    FigiAnswered =>
        IF response.status \in 200..299
        THEN response.body.json =>
                /\ figi_df.kind = "DataFrame"
                /\ Len(figi_df.rows) = Len(response.body.elems)
        ELSE figi_df = None /\ raised = "none"

----------------------------------------------------------------------------
(* Properties of map_exchange_id_to_code *)

MapReturned == script = "mappingExchangeId_Code.py" /\ pc = "exited"

(* C7: the returned table has the rows of the argument in their order,
   each with ExchangeCode the mapping's value for its ExchangeId, or NaN
   when the ExchangeId is no key of the mapping. *)
C7_RowsPreservedAndMapped ==
    MapReturned =>
        LET out == heap[retRef]
        IN  /\ Len(out.rows) = Len(atCall.rows)
            /\ \A i \in 1..Len(atCall.rows) :
                 /\ i \in DOMAIN out.rows
                 /\ \A c \in atCall.columns \ {"ExchangeCode"} :
                      out.rows[i][c] = atCall.rows[i][c]
                 /\ out.rows[i]["ExchangeCode"] =
                      IF atCall.rows[i]["ExchangeId"] \in DOMAIN mappingAtCall
                      THEN mappingAtCall[atCall.rows[i]["ExchangeId"]]
                      ELSE NaN

(* A returned table with a mapped row before a row whose key is missing *)
C7_Witness ==
    /\ MapReturned
    /\ Len(atCall.rows) = 2
    /\ atCall.rows[1]["ExchangeId"] \in DOMAIN mappingAtCall
    /\ atCall.rows[2]["ExchangeId"] \notin DOMAIN mappingAtCall
    /\ heap[retRef].rows[2]["ExchangeCode"] = NaN

====
